---- MODULE Spec2Model ----
(***************************************************************************)
(* Smart-meter platform: the in-memory store `db` of app/__init__.py, the  *)
(* reload / reconciliation / scoring functions that write it, the request  *)
(* handlers of app/routes.py that read it, and the PID simulation of       *)
(* app/pid_controller.py that the scheduler loop advances.                 *)
(*                                                                         *)
(* Numbers are fixed point: `current` is in tenths of an ampere,           *)
(* confidences are in hundredths of a percent (92.00 % is 9200), the       *)
(* simulator's quantities are in thousandths.  Timestamps are integers     *)
(* that order the way the ISO-8601 strings of the log do.                  *)
(***************************************************************************)
EXTENDS Integers, Sequences, FiniteSets, TLC

VARIABLES
    log,              \* sensor_logs.json as the external producer left it
    db,               \* the global in-memory database of app/__init__.py
    predictive_model, \* the global predictive_model of app/__init__.py
    simulation,       \* the global SystemSimulation of app/pid_controller.py
    clock,            \* the wall clock (time.time(), Timestamp.now())
    phase,            \* "import" before create_app, then "running" or "crashed"
    last,             \* what the step just taken did (history variable)
    sched,            \* the background_update thread inside initialize_data
    handler,          \* a request thread inside simulate_new_data
    obs               \* what a reading request handler last saw

vars == <<log, db, predictive_model, simulation, clock, phase, last, sched, handler, obs>>

----------------------------------------------------------------------------
(* Bounds of the model *)

\* PredictiveModel.TIME_STEPS, the window of the classifier: 10 in
\* ai_model.py, kept small here so that a log of a few readings fills it
TIME_STEPS == 2

\* the length db["predictions"] is cut to: 50 in __init__.py, kept small
\* here so that a log of a few tamper readings overflows it
MaxPredictions == 2

\* longest log the producer builds by appending one reading at a time
MaxLogLen == 2

\* the clock stops the model after this many seconds
MaxClock == 1

\* disturbances the simulation takes before scoring is no longer called
MaxDisturbances == 1

\* calls of SystemSimulation.step while the simulator is exercised alone
MaxSteps == 3

\* turns of the loop of background_update while it is followed call by call
MaxTicks == 2

NodeIds == {"NODE-01", "NODE-02"}

----------------------------------------------------------------------------
(* Sequences *)

Last(s) == s[Len(s)]

\* s[:n]
Prefix(s, n) == SubSeq(s, 1, IF n < Len(s) THEN n ELSE Len(s))

\* s[-n:]
Suffix(s, n) == SubSeq(s, IF Len(s) > n THEN Len(s) - n + 1 ELSE 1, Len(s))

\* list.reverse()
\* a reverse() that leaves the list as it is
NotReversed(s) == s

Reverse(s) == [i \in 1..Len(s) |-> s[Len(s) + 1 - i]]

----------------------------------------------------------------------------
(* The log: a file that may be missing, unreadable, not JSON, JSON that is *)
(* no list, or a JSON list of entries.                                     *)

\* dict.get(key, default) on a log entry; `absent` names the keys it lacks
Get(entry, key, default) == IF key \in entry.absent THEN default ELSE entry[key]

\* float(v) raises ValueError for a value such as "n/a"
FloatRaises(entry, key) == key \notin entry.absent /\ key \in entry.nonnum

\* the dict save_reading writes
save_reading(voltage, current, light, tamper, node_id, timestamp) ==
    [node_id |-> node_id, timestamp |-> timestamp,
     event_type |-> IF tamper = 1 THEN "TAMPER" ELSE "NORMAL",
     voltage |-> voltage, current |-> current, lightIntensity |-> light,
     tamperFlag |-> tamper, absent |-> {}, nonnum |-> {}]

\* os.path.getsize: the byte length of the dumped list.  Every entry of
\* the model dumps to the same number of bytes, so logs of equal length
\* have equal size whatever their content.
getsize(entries) == 2 + 180 * Len(entries)

ListFile(entries) == [exists |-> TRUE, kind |-> "list", entries |-> entries,
                      size |-> getsize(entries)]

MissingFile == [exists |-> FALSE, kind |-> "list", entries |-> <<>>, size |-> 0]

\* a file that os.path.exists but load_sensor_logs cannot turn into a list
BrokenFile(kind, size) == [exists |-> TRUE, kind |-> kind, entries |-> <<>>, size |-> size]

BrokenKinds == {"unreadable", "invalid-json", "not-a-list"}

\* load_sensor_logs: [] for a missing file, for any exception and for JSON
\* that is not a list
load_sensor_logs(file) ==
    IF file.exists
    THEN IF file.kind = "list" THEN file.entries ELSE <<>>
    ELSE <<>>

----------------------------------------------------------------------------
(* app/utils.py: a log entry as a MeterReading *)

\* what one call draws: random.uniform as the fraction u of its interval
\* (0 the low end, 1 the high end) and the two generate_hex_string results
Draws == {[u |-> 0, ciphertext |-> "c0", hmac |-> "h0"],
          [u |-> 1, ciphertext |-> "c1", hmac |-> "h1"]}

\* random.uniform(lo, hi), in hundredths
uniform(lo, hi, u) == 100 * (lo + u * (hi - lo))

\* the comparisons and the float() calls raise for a non-numeric value
ConvertRaises(json_data) ==
    \E k \in {"voltage", "current", "lightIntensity"} : FloatRaises(json_data, k)

convert_json_to_meter_reading(json_data, draw, now) ==
    LET event_type == IF Get(json_data, "tamperFlag", 0) = 1 THEN "TAMPER" ELSE "NORMAL"
        voltage == Get(json_data, "voltage", 0)
        current == Get(json_data, "current", 0)
        light == Get(json_data, "lightIntensity", 0)
        tamper_reason ==
            IF event_type = "TAMPER"
            THEN IF voltage > 240 \/ voltage < 200 THEN "Abnormal Voltage"
                 ELSE IF current > 150 THEN "Overcurrent"
                 ELSE IF light < 500 THEN "Light Tamper"
                 ELSE "Switch Tampering"
            ELSE "None"
        confidence == IF event_type = "TAMPER" THEN uniform(75, 95, draw.u)
                      ELSE uniform(50, 80, draw.u)
    IN [node_id |-> Get(json_data, "node_id", "UNKNOWN"),
        timestamp |-> Get(json_data, "timestamp", now),
        voltage |-> Get(json_data, "voltage", 220),
        current |-> Get(json_data, "current", 50),
        light |-> Get(json_data, "lightIntensity", 900),
        event_type |-> event_type,
        tamper_reason |-> tamper_reason,
        confidence |-> confidence,
        ciphertext |-> draw.ciphertext,
        hmac |-> draw.hmac,
        verified |-> TRUE,
        health_score |-> 100]

----------------------------------------------------------------------------
(* app/__init__.py: the store and the reload *)

db0 == [meter_readings |-> <<>>, predictions |-> <<>>, json_data |-> <<>>,
        last_processed_index |-> 0, last_file_size |-> 0]

\* reload_json_data without the `if data:` of line 63
reload_without_data_check(d, file) ==
    IF file.exists /\ (file.size # d.last_file_size \/ d.json_data = <<>>)
    THEN [db |-> [d EXCEPT !.json_data = load_sensor_logs(file),
                           !.last_file_size = file.size],
          ok |-> TRUE]
    ELSE [db |-> d, ok |-> FALSE]

\* reload_json_data: the store afterwards and the value returned
reload_json_data(d, file) ==
    IF file.exists /\ (file.size # d.last_file_size \/ d.json_data = <<>>)
       /\ load_sensor_logs(file) # <<>>
    THEN [db |-> [d EXCEPT !.json_data = load_sensor_logs(file),
                           !.last_file_size = file.size],
          ok |-> TRUE]
    ELSE [db |-> d, ok |-> FALSE]

----------------------------------------------------------------------------
(* app/__init__.py: initialize_data *)

\* key=lambda x: x.get('timestamp', ''): the empty string sorts first
SortKey(x) == Get(x, "timestamp", 0)

\* sorted(): ascending and stable, so the element at position i goes
\* after every element with a smaller key and every earlier one with an
\* equal key
sorted(s) ==
    LET rank == [i \in 1..Len(s) |->
                    Cardinality({j \in 1..Len(s) :
                        \/ SortKey(s[j]) < SortKey(s[i])
                        \/ SortKey(s[j]) = SortKey(s[i]) /\ j <= i})]
    IN [k \in 1..Len(s) |-> s[CHOOSE i \in 1..Len(s) : rank[i] = k]]

\* `if nid:` for nid = entry.get('node_id')
HasNodeId(entry) == "node_id" \notin entry.absent /\ entry.node_id # ""

Range(s) == {s[i] : i \in 1..Len(s)}

\* the keys of node_latest
NodesOf(data) == {data[i].node_id : i \in {j \in 1..Len(data) : HasNodeId(data[j])}}

\* the keys of node_latest in the order the dict holds them: by first
\* insertion, which is the first entry of sorted_data with that node_id
NodeOrder(sorted_data) ==
    LET at(nid) == {i \in 1..Len(sorted_data) :
                        HasNodeId(sorted_data[i]) /\ sorted_data[i].node_id = nid}
        nodes == {sorted_data[i].node_id : i \in {j \in 1..Len(sorted_data) :
                                                      HasNodeId(sorted_data[j])}}
        first == [nid \in nodes |-> CHOOSE i \in at(nid) : \A j \in at(nid) : i <= j]
    IN [k \in 1..Cardinality(nodes) |->
           CHOOSE nid \in nodes :
               Cardinality({m \in nodes : first[m] <= first[nid]}) = k]

\* node_latest[nid]: the last entry of sorted_data with that node_id
node_latest(sorted_data, nid) ==
    LET idx == {i \in 1..Len(sorted_data) :
                    HasNodeId(sorted_data[i]) /\ sorted_data[i].node_id = nid}
    IN sorted_data[CHOOSE i \in idx : \A j \in idx : j <= i]

\* an assignment that rebinds db["meter_readings"] to a dict of this node
SetOnlyReading(meter_readings, nid, reading) ==
    [n \in {nid} |-> reading]

\* db["meter_readings"][nid] = reading
SetReading(meter_readings, nid, reading) ==
    [n \in (DOMAIN meter_readings) \cup {nid} |->
        IF n = nid THEN reading ELSE meter_readings[n]]

\* the first position at which a loop raises, given for each of its turns
\* whether it does; one past the last turn when none does
FirstRaising(raises) ==
    LET bad == {i \in 1..Len(raises) : raises[i]}
    IN IF bad = {} THEN Len(raises) + 1 ELSE CHOOSE i \in bad : \A j \in bad : i <= j

\* the test of line 95
IsTamperEntry(entry) ==
    Get(entry, "tamperFlag", 0) = 1 \/ Get(entry, "event_type", "NORMAL") = "TAMPER"

\* float(entry.get('current', 0)) of line 98
CurrentRaises(entry) == FloatRaises(entry, "current")

\* the AIPrediction of lines 96-108; a missing timestamp (None) is 0
HistoricalAlert(entry) ==
    LET raw == 8000 + 15 * Get(entry, "current", 0)
        conf == IF raw > 10000 THEN 9990 ELSE raw
    IN [timestamp |-> Get(entry, "timestamp", 0),
        node_id |-> Get(entry, "node_id", "UNKNOWN"),
        event_type |-> "TAMPER",
        confidence |-> conf,
        severity |-> IF conf > 9000 THEN "high" ELSE "medium",
        explanation |-> "Historical Analysis"]

\* line 93 left out: the alerts are appended to the list as it is
KeepPredictions(predictions) == predictions

\* db["predictions"] = [] of line 93: the list the alerts are appended to
ClearPredictions(predictions) == <<>>

\* the loop of lines 87-89 over the first n keys of node_latest
RECURSIVE UpdateLatest(_, _, _, _, _, _)
UpdateLatest(meter_readings, sorted_data, order, n, draws, now) ==
    IF n = 0 THEN meter_readings
    ELSE SetReading(UpdateLatest(meter_readings, sorted_data, order, n - 1, draws, now),
                    order[n],
                    convert_json_to_meter_reading(node_latest(sorted_data, order[n]),
                                                  draws[order[n]], now))

\* initialize_data: the store afterwards and whether the except clause of
\* line 116 was entered.  draws[nid] is what the conversion of nid draws.
initialize_data(d, draws, now) ==
    IF d.json_data = <<>> THEN [db |-> d, raised |-> FALSE]
    ELSE
    LET sorted_data == sorted(d.json_data)
        order == NodeOrder(sorted_data)
        latest == [i \in 1..Len(order) |-> node_latest(sorted_data, order[i])]
        k == FirstRaising([i \in 1..Len(latest) |-> ConvertRaises(latest[i])])
        readings == UpdateLatest(d.meter_readings, sorted_data, order, k - 1, draws, now)
        tampers == SelectSeq(sorted_data, IsTamperEntry)
        j == FirstRaising([i \in 1..Len(tampers) |-> CurrentRaises(tampers[i])])
        alerts == ClearPredictions(d.predictions)
                  \o [i \in 1..(j - 1) |-> HistoricalAlert(tampers[i])]
    IN IF k <= Len(order)
       THEN [db |-> [d EXCEPT !.meter_readings = readings], raised |-> TRUE]
       ELSE IF j <= Len(tampers)
       THEN [db |-> [d EXCEPT !.meter_readings = readings, !.predictions = alerts],
             raised |-> TRUE]
       ELSE [db |-> [d EXCEPT !.meter_readings = readings,
                              !.predictions = Prefix(Reverse(alerts), MaxPredictions),
                              !.last_processed_index = Len(d.json_data)],
             raised |-> FALSE]

----------------------------------------------------------------------------
(* app/pid_controller.py *)

\* a / b rounded towards zero, for b > 0
Div(a, b) == IF a >= 0 THEN a \div b ELSE -((-a) \div b)

\* a _clamp that returns its argument
clamp_nothing(value) == value

\* PIDController._clamp with output_limits = (-10, 10)
clamp(value) == IF value < -10000 THEN -10000 ELSE IF value > 10000 THEN 10000 ELSE value

\* update without line 43
update_unclamped_output(pid, process_variable, current_time) ==
    LET dt == current_time - pid._last_time
        error == 100000 - process_variable
        proportional == Div(2 * error, 10)
        integral == clamp(pid._integral + Div(5 * error * dt, 100))
        derivative == Div(error - pid._last_error, 10 * dt)
    IN IF dt <= 0 THEN [pid |-> pid, output |-> 0]
       ELSE [pid |-> [_integral |-> integral, _last_error |-> error,
                      _last_time |-> current_time],
             output |-> proportional + integral + derivative]

\* PIDController.update with Kp = 0.2, Ki = 0.05, Kd = 0.1, setpoint = 100:
\* the controller afterwards and the output returned
update(pid, process_variable, current_time) ==
    LET dt == current_time - pid._last_time
        error == 100000 - process_variable
        proportional == Div(2 * error, 10)
        integral == clamp(pid._integral + Div(5 * error * dt, 100))
        derivative == Div(error - pid._last_error, 10 * dt)
        output == clamp(proportional + integral + derivative)
    IN IF dt <= 0 THEN [pid |-> pid, output |-> 0]
       ELSE [pid |-> [_integral |-> integral, _last_error |-> error,
                      _last_time |-> current_time],
             output |-> output]

\* self._max_history: 100 in pid_controller.py, kept small here so that a
\* few steps fill the history
max_history == 2

\* _update_history without the trimming of lines 108 and 109
update_history_untrimmed(history, current_time, process_variable, control_output) ==
    [time |-> Append(history.time, current_time),
     process_variable |-> Append(history.process_variable, process_variable),
     setpoint |-> Append(history.setpoint, 100000),
     controller_output |-> Append(history.controller_output, control_output)]

\* SystemSimulation._update_history
update_history(history, current_time, process_variable, control_output) ==
    [time |-> Suffix(Append(history.time, current_time), max_history),
     process_variable |-> Suffix(Append(history.process_variable, process_variable),
                                 max_history),
     setpoint |-> Suffix(Append(history.setpoint, 100000), max_history),
     controller_output |-> Suffix(Append(history.controller_output, control_output),
                                  max_history)]

\* SystemSimulation.step; noise is what np.random.normal(0, 0.1) returns;
\* `steps` counts the calls
step(sim, current_time, noise) ==
    LET dt == current_time - sim.last_step_time
        u == update(sim.pid, sim.process_variable, current_time)
        drag_factor == Div(-5 * (sim.process_variable - 100000), 100)
        pv == sim.process_variable + (u.output + drag_factor) * dt * 10 + noise
    IN [sim EXCEPT !.pid = u.pid,
                   !.process_variable = pv,
                   !.last_step_time = current_time,
                   !.history = update_history(sim.history, current_time, pv, u.output),
                   !.steps = @ + 1]

\* trigger_disturbance without line 98
trigger_disturbance_keeps_integral(sim) ==
    [sim EXCEPT !.process_variable = @ - 80000,
                !.disturbances = @ + 1]

\* a trigger_disturbance that runs its body twice
trigger_disturbance_twice(sim) ==
    [sim EXCEPT !.process_variable = @ - 160000,
                !.pid = [@ EXCEPT !._integral = 0],
                !.disturbances = @ + 2]

\* SystemSimulation.trigger_disturbance with severity = 80; `disturbances`
\* counts the calls (the lines it prints)
trigger_disturbance(sim) ==
    [sim EXCEPT !.process_variable = @ - 80000,
                !.pid = [@ EXCEPT !._integral = 0],
                !.disturbances = @ + 1]

\* the module-level SystemSimulation() at time t
simulation0(t) ==
    [pid |-> [_integral |-> 0, _last_error |-> 0, _last_time |-> t],
     process_variable |-> 100000,
     last_step_time |-> t,
     history |-> [time |-> <<>>, process_variable |-> <<>>, setpoint |-> <<>>,
                  controller_output |-> <<>>],
     disturbances |-> 0,
     steps |-> 0]

----------------------------------------------------------------------------
(* app/ai_model.py and the scoring of app/__init__.py *)

\* Timestamp.now() and utcnow() as a timestamp of the log's kind, in half
\* seconds, when the clock shows t seconds: the app runs after every
\* reading of the model's logs was taken
Now(t) == 2 * MaxPredictions + 2 * t

\* Python's round(): to the nearest integer, a tie to the even one; x is in
\* hundredths
round(x) ==
    LET q == x \div 100
        r == x % 100
    IN IF r > 50 THEN q + 1
       ELSE IF r < 50 THEN q
       ELSE IF q % 2 = 0 THEN q ELSE q + 1

\* what self.model.predict does when called: it raises, or it returns a
\* tamper probability, in ten-thousandths
PredictRaises == [raises |-> TRUE, p |-> 0]

Predicts(p) == [raises |-> FALSE, p |-> p]

NoPrediction == <<>>

\* line 120 with >= for >
predicted_severity_inclusive(confidence) == IF confidence >= 8500 THEN "high" ELSE "medium"

\* line 120
predicted_severity(confidence) == IF confidence > 8500 THEN "high" ELSE "medium"

\* PredictiveModel.get_health_score_and_prediction.  model is "None" or
\* "loaded"; n is len(recent_readings); a prediction is <<p>>, None is <<>>.
get_health_score_and_prediction(model, node_id, n, predict, now) ==
    IF model = "None" \/ n < TIME_STEPS
    THEN [health_score |-> 100, prediction |-> NoPrediction, raised |-> FALSE,
          called |-> FALSE]
    ELSE IF predict.raises
    THEN [health_score |-> 100, prediction |-> NoPrediction, raised |-> TRUE,
          called |-> TRUE]
    ELSE
    LET confidence == predict.p      \* p * 100 percent, in hundredths
        health_score == 10000 - confidence
        prediction ==
            IF confidence > 5000
            THEN <<[timestamp |-> now,
                    node_id |-> node_id,
                    event_type |-> "PREDICTED_TAMPER",
                    confidence |-> confidence,
                    severity |-> predicted_severity(confidence),
                    explanation |-> "Predictive Alert"]>>
            ELSE NoPrediction
    IN [health_score |-> round(health_score), prediction |-> prediction,
        raised |-> FALSE, called |-> TRUE]

\* db["meter_readings"][node_id].health_score = h, under `if node_id in ...`
SetHealth(meter_readings, node_id, h) ==
    IF node_id \in DOMAIN meter_readings
    THEN [meter_readings EXCEPT ![node_id] = [@ EXCEPT !.health_score = h]]
    ELSE meter_readings

\* [x for x in db["json_data"] if x.get('node_id') == node_id]
IsOfNode(x, node_id) == "node_id" \notin x.absent /\ x.node_id = node_id

node_history(json_data, node_id) ==
    LET Keep(x) == IsOfNode(x, node_id)
    IN SelectSeq(json_data, Keep)

\* update_predictions_and_health.  pm is "None" (the global is None),
\* "no-model" (an object whose .model is None) or "loaded".  The store and
\* the simulation afterwards; raised: an exception left the function;
\* called: predict was called; emitted: a prediction was inserted.
update_predictions_and_health(d, sim, pm, node_id, predict, now) ==
    LET unchanged == [db |-> d, simulation |-> sim, raised |-> FALSE,
                      called |-> FALSE, emitted |-> FALSE]
        history == node_history(d.json_data, node_id)
        recent_items == Suffix(history, TIME_STEPS)
        defaulted == [d EXCEPT !.meter_readings = SetHealth(@, node_id, 100)]
        result == get_health_score_and_prediction(
                      IF pm = "loaded" THEN "loaded" ELSE "None",
                      node_id, Len(recent_items), predict, now)
        scored == [defaulted EXCEPT
                      !.meter_readings = SetHealth(@, node_id, result.health_score)]
    IN IF pm = "None" \/ d.json_data = <<>> THEN unchanged
       ELSE IF history = <<>> THEN unchanged
       ELSE IF \E i \in 1..Len(recent_items) : ConvertRaises(recent_items[i])
       THEN [unchanged EXCEPT !.raised = TRUE]
       ELSE IF Len(recent_items) < TIME_STEPS
       THEN [unchanged EXCEPT !.db = defaulted]
       ELSE IF result.raised
       THEN [unchanged EXCEPT !.db = defaulted, !.raised = TRUE, !.called = TRUE]
       ELSE IF result.prediction = NoPrediction
       THEN [unchanged EXCEPT !.db = scored, !.called = result.called]
       ELSE [db |-> [scored EXCEPT
                        !.predictions = Prefix(result.prediction \o @, MaxPredictions)],
             simulation |-> trigger_disturbance(sim),
             raised |-> FALSE, called |-> TRUE, emitted |-> TRUE]

----------------------------------------------------------------------------
(* What the environment supplies *)

\* readings the producer appends, one save_reading call each: two tamper
\* readings of one node, the second one stamped before the first
AppendedEntries ==
    {save_reading(220, 50, 900, 1, "NODE-01", 2),
     save_reading(250, 200, 100, 1, "NODE-01", 1)}

\* a log of two nodes, not in timestamp order
TwoNodeLog ==
    <<save_reading(220, 50, 900, 1, "NODE-02", 2),
      save_reading(220, 50, 900, 0, "NODE-01", 1)>>

\* a log with two readings of one node that carry the same timestamp
TiedLog ==
    <<save_reading(250, 200, 100, 1, "NODE-01", 1),
      save_reading(220, 50, 900, 0, "NODE-01", 1)>>

\* a log whose only reading carries no timestamp
NoTimestampLog ==
    <<[save_reading(220, 50, 900, 0, "NODE-01", 0) EXCEPT !.absent = {"timestamp"}]>>

\* a reading whose current is no number, as another writer may leave it
Malformed(node_id, timestamp) ==
    [save_reading(220, 0, 900, 1, node_id, timestamp) EXCEPT !.nonnum = {"current"}]

\* logs with such a reading: as the newest reading of its node, after a
\* reading of another node; and as an older tamper reading of its node
MalformedLogs ==
    {<<save_reading(220, 50, 900, 0, "NODE-01", 1), Malformed("NODE-02", 2)>>,
     <<Malformed("NODE-02", 1), save_reading(220, 50, 900, 1, "NODE-02", 2)>>}

\* a log of n tamper readings of one node, oldest first
BulkLog(n) == [i \in 1..n |-> save_reading(250, 200, 100, 1, "NODE-01", i)]

BulkSizes == {TIME_STEPS - 1, TIME_STEPS, MaxPredictions + 1}

\* a log without any reading of NODE-01
OtherNodeLog == <<save_reading(220, 50, 900, 1, "NODE-02", 1)>>

UnusableFiles ==
    {MissingFile, ListFile(<<>>)}
    \cup {BrokenFile(k, getsize(OtherNodeLog)) : k \in BrokenKinds}

\* files put in the log's place while reconciliation is exercised
ReplacementFiles ==
    UnusableFiles
    \cup {ListFile(l) : l \in MalformedLogs}
    \cup {ListFile(TwoNodeLog), ListFile(NoTimestampLog), ListFile(TiedLog),
          ListFile(BulkLog(MaxPredictions + 1))}

\* files put in the log's place while scoring is exercised
ScoringFiles ==
    {MissingFile, ListFile(OtherNodeLog), ListFile(CHOOSE l \in MalformedLogs : Len(node_history(l, "NODE-01")) > 0)}
    \cup {ListFile(BulkLog(n)) : n \in BulkSizes}

\* tamper probabilities the classifier returns, in ten-thousandths
Probabilities == {3000, 3150, 5000, 8500, 9200}

PredictOutcomes == {PredictRaises} \cup {Predicts(p) : p \in Probabilities}

\* seconds between two ticks of the loop, and the simulator's noise
NominalDt == {1}

NoNoise == {0}

----------------------------------------------------------------------------
(* State *)

Idle == [pc |-> "idle"]

NoObs == [seen |-> FALSE]

\* the step just taken: the operation; ok: reload_json_data returned True;
\* again: initialize_data ran right after a run of it on the same mirror;
\* raised: an exception was raised (caught inside initialize_data, not
\* caught in the scoring); node, called, emitted, predict: the node scored,
\* whether predict was called, what it did, whether a prediction was
\* inserted; disturbances: the calls of trigger_disturbance
Step(op) == [op |-> op, ok |-> FALSE, raised |-> FALSE, node |-> "",
             called |-> FALSE, emitted |-> FALSE, predict |-> PredictRaises,
             disturbances |-> 0, again |-> FALSE]

\* the step ran initialize_data on a mirror that is not empty
IsPass(l) ==
    \/ l.op = "simulate"
    \/ l.op \in {"create_app", "tick"} /\ l.ok

Init ==
    /\ log \in {MissingFile, ListFile(TwoNodeLog)}
               \cup {ListFile(<<e>>) : e \in AppendedEntries}
    /\ db = db0
    /\ predictive_model = "None"
    /\ simulation = simulation0(0)
    /\ clock = 0
    /\ phase = "import"
    /\ last = Step("import")
    /\ sched = Idle
    /\ handler = Idle
    /\ obs = NoObs

----------------------------------------------------------------------------
(* The producer *)

\* uart_to_logsJSON.save_reading: read the list (an unreadable file counts
\* as empty), append, write back; on JSON that is no list the append raises
\* and the file stays. The meter's readings arrive in turn, the second
\* stamped earlier than the first
ProducerAppend(entry) ==
    LET all_readings == load_sensor_logs(log)
    IN /\ log.kind # "not-a-list"
       /\ Len(all_readings) < MaxLogLen
       /\ entry.timestamp = 2 - (Len(all_readings) % 2)
       /\ log' = ListFile(Append(all_readings, entry))
       /\ last' = Step("write")
       /\ UNCHANGED <<db, predictive_model, simulation, clock, phase, sched, handler, obs>>

\* the file is deleted, truncated, damaged or replaced
ProducerReplace(file) ==
    /\ file # log
    /\ log' = file
    /\ last' = Step("write")
    /\ UNCHANGED <<db, predictive_model, simulation, clock, phase, sched, handler, obs>>

----------------------------------------------------------------------------
(* create_app *)

\* PredictiveModel.__init__: _load_data raises for a file that is no JSON
\* list of numeric readings; the model is None without data, loaded from
\* the .h5 file when there is one, and trained when the data make at least
\* one sequence
ModelInitRaises(file) ==
    /\ file.exists
    /\ \/ file.kind # "list"
       \/ \E i \in 1..Len(file.entries) : ConvertRaises(file.entries[i])

load_or_train_model(file, h5) ==
    IF ~file.exists \/ file.entries = <<>> THEN "no-model"
    ELSE IF h5 THEN "loaded"
    ELSE IF Len(file.entries) - TIME_STEPS > 0 THEN "loaded"
    ELSE "no-model"

create_app_crash ==
    /\ phase = "import"
    /\ ModelInitRaises(log)
    /\ phase' = "crashed"
    /\ last' = [Step("create_app") EXCEPT !.raised = TRUE]
    /\ UNCHANGED <<log, db, predictive_model, simulation, clock, sched, handler, obs>>

create_app ==
    /\ phase = "import"
    /\ ~ModelInitRaises(log)
    /\ \E h5 \in BOOLEAN, draws \in [NodesOf(load_sensor_logs(log)) -> Draws] :
          LET r == reload_json_data(db, log)
              i == initialize_data(r.db, draws, Now(clock))
          IN /\ predictive_model' = load_or_train_model(log, h5)
             /\ db' = i.db
             /\ last' = [Step("create_app") EXCEPT !.ok = r.ok, !.raised = i.raised]
    /\ phase' = "running"
    /\ UNCHANGED <<log, simulation, clock, sched, handler, obs>>

----------------------------------------------------------------------------
(* The scheduler loop and the handlers, each call as one step *)

\* one turn of background_update: sleep, simulation.step(), then
\* initialize_data() when reload_json_data() returns True
background_update(dts, noises) ==
    /\ phase = "running"
    /\ sched.pc = "idle"
    /\ \E dt \in dts, noise \in noises, draws \in [NodesOf(load_sensor_logs(log)) -> Draws] :
          LET r == reload_json_data(db, log)
              i == IF r.ok THEN initialize_data(r.db, draws, Now(clock + dt))
                   ELSE [db |-> r.db, raised |-> FALSE]
          IN /\ clock + dt <= MaxClock
             /\ clock' = clock + dt
             /\ simulation' = step(simulation, clock + dt, noise)
             /\ db' = i.db
             /\ last' = [Step("tick") EXCEPT
                            !.ok = r.ok, !.raised = i.raised,
                            !.again = r.ok /\ IsPass(last) /\ r.db.json_data = db.json_data]
    /\ UNCHANGED <<log, predictive_model, phase, sched, handler, obs>>

\* POST /api/simulate, served `late` half seconds after the loop last woke
simulate_new_data ==
    /\ phase = "running"
    /\ handler.pc = "idle"
    /\ \E late \in {0, 1}, draws \in [NodesOf(db.json_data) -> Draws] :
          LET i == initialize_data(db, draws, Now(clock) + late)
          IN /\ db' = i.db
             /\ last' = [Step("simulate") EXCEPT
                            !.raised = i.raised,
                            !.again = IsPass(last) /\ db.json_data # <<>>]
    /\ UNCHANGED <<log, predictive_model, simulation, clock, phase, sched, handler, obs>>

\* a call of update_predictions_and_health(node_id)
Score(node_id, predict) ==
    /\ phase # "crashed"
    /\ simulation.disturbances < MaxDisturbances
    /\ LET r == update_predictions_and_health(db, simulation, predictive_model,
                                              node_id, predict, Now(clock))
       IN /\ r.called \/ predict = PredictRaises
          /\ db' = r.db
          /\ simulation' = r.simulation
          /\ last' = [Step("score") EXCEPT !.node = node_id, !.raised = r.raised,
                                           !.called = r.called, !.emitted = r.emitted,
                                           !.predict = predict,
                                           !.disturbances = r.simulation.disturbances
                                                            - simulation.disturbances]
    /\ UNCHANGED <<log, predictive_model, clock, phase, sched, handler, obs>>

----------------------------------------------------------------------------
(* initialize_data statement by statement, for the passes of two threads   *)
(* that interleave: the loop thread and a request thread serving           *)
(* POST /api/simulate.  A thread inside the function is a record of its    *)
(* position and its locals.                                                *)

\* line 73 to line 85: the early return, the sort and node_latest
begin_initialize(d, now) ==
    IF d.json_data = <<>> THEN Idle
    ELSE LET sorted_data == sorted(d.json_data)
             order == NodeOrder(sorted_data)
         IN [pc |-> IF order = <<>> THEN "clear" ELSE "latest",
             sorted_data |-> sorted_data, order |-> order, i |-> 1]

\* the next statement of the thread t on the store d: the thread and the
\* store afterwards
initialize_step(t, d, draw, now) ==
    LET tampers == SelectSeq(t.sorted_data, IsTamperEntry)
        entry == node_latest(t.sorted_data, t.order[t.i])
    IN CASE t.pc = "latest" ->
              IF ConvertRaises(entry) THEN [t |-> Idle, db |-> d, raised |-> TRUE]
              ELSE [t |-> [t EXCEPT !.i = IF t.i = Len(t.order) THEN 1 ELSE t.i + 1,
                                    !.pc = IF t.i = Len(t.order) THEN "clear" ELSE "latest"],
                    db |-> [d EXCEPT !.meter_readings =
                               SetReading(@, t.order[t.i],
                                          convert_json_to_meter_reading(entry, draw, now))],
                    raised |-> FALSE]
         [] t.pc = "clear" ->
              [t |-> [t EXCEPT !.pc = IF tampers = <<>> THEN "reverse" ELSE "scan"],
               db |-> [d EXCEPT !.predictions = ClearPredictions(@)], raised |-> FALSE]
         [] t.pc = "scan" ->
              IF CurrentRaises(tampers[t.i]) THEN [t |-> Idle, db |-> d, raised |-> TRUE]
              ELSE [t |-> [t EXCEPT !.i = t.i + 1,
                                    !.pc = IF t.i = Len(tampers) THEN "reverse" ELSE "scan"],
                    db |-> [d EXCEPT !.predictions = Append(@, HistoricalAlert(tampers[t.i]))],
                    raised |-> FALSE]
         [] t.pc = "reverse" ->
              [t |-> [t EXCEPT !.pc = "truncate"],
               db |-> [d EXCEPT !.predictions = Reverse(@)], raised |-> FALSE]
         [] t.pc = "truncate" ->
              [t |-> [t EXCEPT !.pc = "index"],
               db |-> [d EXCEPT !.predictions = Prefix(@, MaxPredictions)], raised |-> FALSE]
         [] t.pc = "index" ->
              [t |-> Idle,
               db |-> [d EXCEPT !.last_processed_index = Len(d.json_data)],
               raised |-> FALSE]

\* which reading each node shows
Shown(meter_readings) == [n \in DOMAIN meter_readings |-> meter_readings[n].timestamp]

\* what the two reading routes return from the store d
Views(d) == [predictions |-> d.predictions, readings |-> Shown(d.meter_readings)]

\* the thread t with two history fields: what the store showed when its
\* pass began and what the pass, run alone, leaves
Tracked(t, d, now) ==
    IF t.pc = "idle" THEN t
    ELSE [pc |-> t.pc, sorted_data |-> t.sorted_data, order |-> t.order, i |-> t.i,
          before |-> Views(d),
          after |-> Views(initialize_data(
                        d, [n \in NodesOf(d.json_data) |-> CHOOSE x \in Draws : TRUE],
                        now).db)]

\* background_update up to the call of initialize_data
loop_tick(dts, noises) ==
    /\ phase = "running"
    /\ sched.pc = "idle"
    /\ \E dt \in dts, noise \in noises :
          LET r == reload_json_data(db, log)
          IN /\ clock + dt <= MaxClock
             /\ clock' = clock + dt
             /\ simulation' = step(simulation, clock + dt, noise)
             /\ db' = r.db
             /\ sched' = IF r.ok
                         THEN Tracked(begin_initialize(r.db, Now(clock + dt)), r.db,
                                      Now(clock + dt))
                         ELSE Idle
             /\ last' = [Step("tick") EXCEPT !.ok = r.ok]
    /\ obs' = NoObs
    /\ UNCHANGED <<log, predictive_model, phase, handler>>

loop_step ==
    /\ sched.pc # "idle"
    /\ \E draw \in Draws :
          LET r == initialize_step(sched, db, draw, Now(clock))
          IN /\ sched' = r.t
             /\ db' = r.db
             /\ last' = [Step("tick") EXCEPT !.raised = r.raised]
    /\ obs' = NoObs
    /\ UNCHANGED <<log, predictive_model, simulation, clock, phase, handler>>

\* POST /api/simulate enters initialize_data
simulate_begin ==
    /\ phase = "running"
    /\ handler.pc = "idle"
    /\ db.json_data # <<>>
    /\ handler' = begin_initialize(db, Now(clock))
    /\ last' = Step("simulate")
    /\ obs' = NoObs
    /\ UNCHANGED <<log, db, predictive_model, simulation, clock, phase, sched>>

simulate_step ==
    /\ handler.pc # "idle"
    /\ \E draw \in Draws :
          LET r == initialize_step(handler, db, draw, Now(clock))
          IN /\ handler' = r.t
             /\ db' = r.db
             /\ last' = [Step("simulate") EXCEPT !.raised = r.raised]
    /\ obs' = NoObs
    /\ UNCHANGED <<log, predictive_model, simulation, clock, phase, sched>>

\* GET /api/predictions while the loop thread is inside initialize_data
get_predictions ==
    /\ phase = "running"
    /\ sched.pc # "idle"
    /\ obs' = [seen |-> TRUE, route |-> "predictions", value |-> db.predictions]
    /\ last' = Step("read")
    /\ UNCHANGED <<log, db, predictive_model, simulation, clock, phase, sched, handler>>

\* GET /api/readings while the loop thread is inside initialize_data
get_readings ==
    /\ phase = "running"
    /\ sched.pc # "idle"
    /\ obs' = [seen |-> TRUE, route |-> "readings", value |-> Shown(db.meter_readings)]
    /\ last' = Step("read")
    /\ UNCHANGED <<log, db, predictive_model, simulation, clock, phase, sched, handler>>

\* the producer between two passes: initialize_data does not read the
\* file, so an append during a pass has the effect of one right after it
append_between_passes(entry) ==
    /\ sched.pc = "idle"
    /\ handler.pc = "idle"
    /\ obs' = NoObs
    /\ LET all_readings == load_sensor_logs(log)
       IN /\ Len(all_readings) < MaxLogLen
          /\ log' = ListFile(Append(all_readings, entry))
    /\ last' = Step("write")
    /\ UNCHANGED <<db, predictive_model, simulation, clock, phase, sched, handler>>

\* the loop thread, a request thread forcing reconciliation and reading
\* request threads, statement by statement, while the producer appends
NextThreads ==
    \/ \E entry \in AppendedEntries : append_between_passes(entry)
    \/ create_app
    \/ loop_tick(NominalDt, NoNoise)
    \/ loop_step
    \/ simulate_begin
    \/ simulate_step
    \/ get_predictions
    \/ get_readings

InitThreads ==
    /\ Init
    /\ log \in {MissingFile, ListFile(TwoNodeLog)}

SpecThreads == InitThreads /\ [][NextThreads]_vars

\* reload and reconciliation against a log that grows, is replaced, is
\* damaged and is deleted
Next ==
    \/ \E entry \in AppendedEntries : ProducerAppend(entry)
    \/ \E file \in ReplacementFiles : ProducerReplace(file)
    \/ create_app_crash
    \/ create_app
    \/ background_update(NominalDt, NoNoise)
    \/ simulate_new_data

Spec == Init /\ [][Next]_vars

\* scoring calls between reloads of logs that fill the window or do not
NextScoring ==
    \/ \E file \in ScoringFiles : ProducerReplace(file)
    \/ create_app
    \/ background_update(NominalDt, NoNoise)
    \/ simulate_new_data
    \/ \E node_id \in NodeIds, predict \in PredictOutcomes : Score(node_id, predict)

InitScoring ==
    /\ Init
    /\ log \in ScoringFiles

SpecScoring == InitScoring /\ [][NextScoring]_vars

----------------------------------------------------------------------------
(* The simulator alone: steps after any elapsed time, with and without     *)
(* noise, and disturbances                                                  *)

\* seconds between two reads of time.time(): a second, a long pause, none,
\* and a clock that was set back
ElapsedTimes == {-1, 0, 1, 3}

\* what np.random.normal(0, 0.1) returns, in thousandths
Noises == {0, 100}

\* a call of simulation.step()
simulation_step(dt, noise) ==
    /\ phase = "running"
    /\ simulation.steps < MaxSteps
    /\ clock' = clock + dt
    /\ simulation' = step(simulation, clock + dt, noise)
    /\ last' = Step("step")
    /\ UNCHANGED <<log, db, predictive_model, phase, sched, handler, obs>>

\* a call of simulation.trigger_disturbance()
simulation_trigger_disturbance ==
    /\ phase = "running"
    /\ simulation.disturbances < MaxDisturbances
    /\ simulation' = trigger_disturbance(simulation)
    /\ last' = [Step("disturb") EXCEPT !.disturbances = 1]
    /\ UNCHANGED <<log, db, predictive_model, clock, phase, sched, handler, obs>>

NextSimulation ==
    \/ create_app
    \/ \E dt \in ElapsedTimes, noise \in Noises : simulation_step(dt, noise)
    \/ simulation_trigger_disturbance

InitSimulation ==
    /\ Init
    /\ log = MissingFile

SpecSimulation == InitSimulation /\ [][NextSimulation]_vars

----------------------------------------------------------------------------
(* One turn of background_update call by call: the loop thread is at the   *)
(* call it makes next and remembers which calls of this turn have          *)
(* returned; inside initialize_data it is at a statement as above.         *)

\* the loop body with reload_json_data() called before simulation.step()
calls_of_turn_reload_first == <<"reload", "step">>

\* lines 153 and 154: simulation.step(), then reload_json_data()
calls_of_turn == <<"step", "reload">>

PassPcs == {"latest", "clear", "scan", "reverse", "truncate", "index"}

\* time.sleep(1) returns
turn_wake ==
    /\ phase = "running"
    /\ sched.pc = "idle"
    /\ clock < MaxTicks
    /\ clock' = clock + 1
    /\ sched' = [pc |-> calls_of_turn[1], ok |-> FALSE, stepped |-> FALSE,
                 checked |-> FALSE]
    /\ last' = Step("tick")
    /\ UNCHANGED <<log, db, predictive_model, simulation, phase, handler, obs>>

\* simulation.step() or reload_json_data(), whichever the thread is at
turn_call ==
    /\ sched.pc \in {"step", "reload"}
    /\ LET next == IF sched.pc = calls_of_turn[1] THEN calls_of_turn[2] ELSE "initialize"
           r == reload_json_data(db, log)
       IN IF sched.pc = "step"
          THEN /\ simulation' = step(simulation, clock, 0)
               /\ sched' = [sched EXCEPT !.pc = next, !.stepped = TRUE]
               /\ last' = Step("tick")
               /\ UNCHANGED db
          ELSE /\ db' = r.db
               /\ sched' = [sched EXCEPT !.pc = next, !.ok = r.ok, !.checked = TRUE]
               /\ last' = [Step("tick") EXCEPT !.ok = r.ok]
               /\ UNCHANGED simulation
    /\ UNCHANGED <<log, predictive_model, clock, phase, handler, obs>>

\* `if reload_json_data():` and the entry of initialize_data()
turn_enter ==
    /\ sched.pc = "initialize"
    /\ sched' = IF sched.ok /\ db.json_data # <<>>
                THEN begin_initialize(db, Now(clock))
                     @@ [stepped |-> sched.stepped, checked |-> sched.checked]
                ELSE Idle
    /\ last' = [Step("tick") EXCEPT !.ok = sched.ok]
    /\ UNCHANGED <<log, db, predictive_model, simulation, clock, phase, handler, obs>>

\* a statement of initialize_data in the loop thread
turn_pass ==
    /\ sched.pc \in PassPcs
    /\ \E draw \in Draws :
          LET r == initialize_step(sched, db, draw, Now(clock))
          IN /\ sched' = r.t
             /\ db' = r.db
             /\ last' = [Step("tick") EXCEPT !.ok = TRUE, !.raised = r.raised]
    /\ UNCHANGED <<log, predictive_model, simulation, clock, phase, handler, obs>>

NextLoop ==
    \/ \E entry \in AppendedEntries : ProducerAppend(entry)
    \/ create_app
    \/ turn_wake
    \/ turn_call
    \/ turn_enter
    \/ turn_pass

InitLoop ==
    /\ Init
    /\ log \in {MissingFile, ListFile(TwoNodeLog)}

SpecLoop == InitLoop /\ [][NextLoop]_vars

----------------------------------------------------------------------------
(* Reconciliation of tamper readings over the range of their current      *)

\* the current of a tamper reading, in tenths of an ampere: negative, zero,
\* either side of the step of the severity, between the cap and the test
\* for it, and beyond
Currents == {-600, 0, 66, 67, 133, 134, 200}

AlertFiles == {ListFile(<<save_reading(220, c, 900, 1, "NODE-01", 1)>>) : c \in Currents}

NextAlerts ==
    \/ \E file \in AlertFiles : ProducerReplace(file)
    \/ create_app
    \/ background_update(NominalDt, NoNoise)
    \/ simulate_new_data

\* the producer has written nothing yet
InitAlerts ==
    /\ Init
    /\ log = MissingFile

SpecAlerts == InitAlerts /\ [][NextAlerts]_vars

----------------------------------------------------------------------------
(* reload_json_data system call by system call: the producer is another    *)
(* process and writes the file whenever it likes, also between the          *)
(* os.path.getsize of reload_json_data and the open of load_sensor_logs     *)

\* `file_size != db["last_file_size"] or not db["json_data"]`
reload_wanted(d, file_size) == file_size # d.last_file_size \/ d.json_data = <<>>

\* `if data:` and the two assignments, for the size read earlier
reload_store(d, file_size, data) ==
    IF data # <<>>
    THEN [db |-> [d EXCEPT !.json_data = data, !.last_file_size = file_size], ok |-> TRUE]
    ELSE [db |-> d, ok |-> FALSE]

\* files put in the log's place while the reload is exercised
ReloadFiles == {MissingFile, ListFile(<<>>), ListFile(TwoNodeLog)}

\* the loop wakes, steps the simulator and reload_json_data reads
\* os.path.exists and os.path.getsize; it returns False here unless the
\* size calls for a reload
reload_getsize ==
    /\ phase = "running"
    /\ sched.pc = "idle"
    /\ clock < MaxTicks
    /\ clock' = clock + 1
    /\ simulation' = step(simulation, clock + 1, 0)
    /\ sched' = IF log.exists /\ reload_wanted(db, log.size)
                THEN [pc |-> "load", file_size |-> log.size]
                ELSE Idle
    /\ last' = Step("tick")
    /\ UNCHANGED <<log, db, predictive_model, phase, handler, obs>>

\* load_sensor_logs opens and parses the file as it is now, the store takes
\* the data with the size read before, and the pass follows
reload_load ==
    /\ sched.pc = "load"
    /\ \E draws \in [NodesOf(load_sensor_logs(log)) -> Draws] :
          LET r == reload_store(db, sched.file_size, load_sensor_logs(log))
              i == IF r.ok THEN initialize_data(r.db, draws, Now(clock))
                   ELSE [db |-> r.db, raised |-> FALSE]
          IN /\ db' = i.db
             /\ last' = [Step("tick") EXCEPT !.ok = r.ok, !.raised = i.raised]
    /\ sched' = Idle
    /\ UNCHANGED <<log, predictive_model, simulation, clock, phase, handler, obs>>

NextReload ==
    \/ \E entry \in AppendedEntries : ProducerAppend(entry)
    \/ \E file \in ReloadFiles : ProducerReplace(file)
    \/ create_app
    \/ reload_getsize
    \/ reload_load

InitReload ==
    /\ Init
    /\ log \in {MissingFile} \cup {ListFile(<<e>>) : e \in AppendedEntries}

SpecReload == InitReload /\ [][NextReload]_vars

----------------------------------------------------------------------------
(* The claims *)

NewestFirst(predictions) ==
    \A i \in 1..(Len(predictions) - 1) :
        predictions[i].timestamp >= predictions[i + 1].timestamp

\* C1: whenever no thread is inside initialize_data, the alert list has at
\* most MaxPredictions entries and is ordered newest first by timestamp.
C1_AlertsBoundedNewestFirst ==
    (sched.pc = "idle" /\ handler.pc = "idle")
        => Len(db.predictions) <= MaxPredictions /\ NewestFirst(db.predictions)

\* C2: what a reading request returns while the loop thread is inside
\* initialize_data is what the store showed before the pass or what the
\* pass leaves, for the alert list and for the reading shown per node.
C2_ReadersSeeWholePass ==
    obs.seen => obs.value \in {sched.before[obs.route], sched.after[obs.route]}

\* C3: after startup no request thread writes the store, and the loop
\* thread and a request thread are never inside initialize_data together.
C3_SingleWriter ==
    [][/\ (phase = "running" /\ db' # db) => last'.op = "tick"
       /\ ~(sched'.pc # "idle" /\ handler'.pc # "idle")]_vars

Stamped(json_data, nid) ==
    nid \in NodesOf(json_data)
        => "timestamp" \notin node_latest(sorted(json_data), nid).absent

\* a NodeState without the fields the conversion draws at random and, for
\* a reading without timestamp, without the time of the conversion
Settled(reading, stamped) ==
    [reading EXCEPT !.confidence = 0, !.ciphertext = "", !.hmac = "",
                    !.timestamp = IF stamped THEN @ ELSE 0]

C5_UnusableLogLeavesStore ==
    [][(last'.op \in {"tick", "create_app"} /\ load_sensor_logs(log) = <<>>)
          => db' = db]_vars

\* the loop ran against a damaged file of a new size while the store held data
C5_Witness ==
    /\ last.op = "tick"
    /\ log \in {BrokenFile(k, getsize(OtherNodeLog)) : k \in BrokenKinds}
    /\ log.size # db.last_file_size
    /\ db.json_data # <<>>
    /\ db.predictions # <<>>

\* C6: a step in which initialize_data raised leaves the whole store as it
\* was before the step.
C6_FailedPassKeepsStore ==
    [][(last'.op \in {"tick", "simulate"} /\ last'.raised) => db' = db]_vars

\* the NodeState of the node scored, when it has one, shows health h
HealthIs(h) ==
    last.node \in DOMAIN db.meter_readings
        => db.meter_readings[last.node].health_score = h

\* C7: after a scoring call for a node with fewer than TIME_STEPS readings
\* in the mirror, the node's health score is 100, and the call inserted no
\* alert and triggered no disturbance.
C7_ShortWindowScoresNeutral ==
    (last.op = "score" /\ Len(node_history(db.json_data, last.node)) < TIME_STEPS)
        => HealthIs(100) /\ ~last.emitted /\ last.disturbances = 0

\* C8: when predict returned p for a full window, confidence is 100 p, the
\* health score is round(100 - confidence), a PREDICTED alert is at the
\* front exactly when confidence > 50, and its severity is high exactly
\* when confidence > 85; p = 0.92 gives 92, 8, high and p = 0.3 gives 30,
\* 70, no alert.
C8_ScoreFromProbability ==
    (last.op = "score" /\ last.called /\ ~last.predict.raises) =>
        LET confidence == last.predict.p
            alert == Head(db.predictions)
        IN /\ HealthIs(round(10000 - confidence))
           /\ last.emitted <=> confidence > 5000
           /\ last.emitted =>
                 /\ alert.event_type = "PREDICTED_TAMPER"
                 /\ alert.node_id = last.node
                 /\ alert.confidence = confidence
                 /\ alert.severity = "high" <=> confidence > 8500
                 /\ alert.severity \in {"high", "medium"}
           /\ confidence = 9200 => HealthIs(8) /\ last.emitted /\ alert.severity = "high"
           /\ confidence = 3000 => HealthIs(70) /\ ~last.emitted

\* the classifier returned 0.85 and 0.92 for a node that has a NodeState
C8_Witness ==
    /\ last.op = "score"
    /\ last.called
    /\ last.predict \in {Predicts(8500), Predicts(9200)}
    /\ last.emitted
    /\ last.node \in DOMAIN db.meter_readings
    /\ Len(db.predictions) = MaxPredictions

\* the step put a PREDICTED alert of the node scored in front of the list
Prepended ==
    /\ db'.predictions # <<>>
    /\ Head(db'.predictions).event_type = "PREDICTED_TAMPER"
    /\ db'.predictions = Prefix(<<Head(db'.predictions)>> \o db.predictions, MaxPredictions)

\* C9: a step triggers one disturbance when it is a scoring call that
\* prepended a PREDICTED alert and none otherwise.
C9_DisturbanceIffAlert ==
    [][/\ simulation'.disturbances - simulation.disturbances
              = IF last'.op = "score" /\ last'.emitted THEN 1 ELSE 0
       /\ (last'.op = "score" /\ last'.emitted) => Prepended
       /\ (last'.op = "score" /\ ~last'.emitted) => db'.predictions = db.predictions]_vars

\* a scoring call prepended an alert to a full list and triggered once
C9_Witness ==
    /\ last.op = "score"
    /\ last.emitted
    /\ last.disturbances = 1
    /\ simulation.process_variable = 20000
    /\ Len(db.predictions) = MaxPredictions

\* C10: after a scoring call made while there is no classifier, or in
\* which predict raised, the node's health score is 100, no alert was
\* inserted, no disturbance was triggered and no exception left the call.
C10_ClassifierFailsClosed ==
    (last.op = "score" /\ (predictive_model # "loaded" \/ (last.called /\ last.predict.raises)))
        => HealthIs(100) /\ ~last.emitted /\ last.disturbances = 0 /\ ~last.raised

\* C11: a call of trigger_disturbance leaves process_variable strictly
\* smaller than it was, lower by 80, and the integral accumulator at zero.
C11_DisturbanceLowersAndResets ==
    [][last'.op = "disturb" =>
          /\ simulation'.process_variable < simulation.process_variable
          /\ simulation'.process_variable = simulation.process_variable - 80000
          /\ simulation'.pid._integral = 0]_vars

\* a disturbance of a simulator that had stepped away from the setpoint
C11_Witness ==
    /\ last.op = "disturb"
    /\ simulation.steps > 0
    /\ simulation.pid._last_error # 0
    /\ simulation.process_variable < 20000
    /\ simulation.pid._integral = 0

\* C12: a step whose elapsed time is zero or negative leaves
\* process_variable, the integral accumulator, last_error and the time of
\* the last step as they were and appends nothing to the history.
C12_SkippedStepChangesNothing ==
    [][(last'.op = "step" /\ clock' - clock <= 0) =>
          /\ simulation'.process_variable = simulation.process_variable
          /\ simulation'.pid._integral = simulation.pid._integral
          /\ simulation'.pid._last_error = simulation.pid._last_error
          /\ simulation'.last_step_time = simulation.last_step_time
          /\ simulation'.history = simulation.history]_vars

\* C13: the integral accumulator is always between -10 and 10.
C13_IntegralWithinBand ==
    /\ simulation.pid._integral >= -10000
    /\ simulation.pid._integral <= 10000

\* the accumulator stands at the edge of the band after a step
C13_Witness ==
    /\ last.op = "step"
    /\ simulation.disturbances > 0
    /\ simulation.pid._integral = 10000

\* C14: every controller output recorded in the history, the one of the
\* step just taken included, is between -10 and 10, also for a step that
\* was skipped.
C14_OutputWithinLimits ==
    \A i \in 1..Len(simulation.history.controller_output) :
        /\ simulation.history.controller_output[i] >= -10000
        /\ simulation.history.controller_output[i] <= 10000

\* the history holds an output at the upper limit and the step after it
C14_Witness ==
    /\ last.op = "step"
    /\ Len(simulation.history.controller_output) = max_history
    /\ simulation.history.controller_output[1] = 10000

HistorySeries == {"time", "process_variable", "setpoint", "controller_output"}

\* C15: the four series of the history have the same length, at most
\* max_history; a step appends one entry to each and, when the history was
\* full, drops the oldest, so that the entries stay in the order of the
\* steps.
C15_HistoryIsBoundedRing ==
    [][last'.op = "step" =>
          \A k \in HistorySeries :
              LET old == simulation.history[k]
                  new == simulation'.history[k]
              IN /\ Len(new) = Len(simulation'.history.time)
                 /\ Len(new) <= max_history
                 /\ new # <<>>
                 /\ IF Len(old) < max_history
                    THEN new = Append(old, new[Len(new)])
                    ELSE new = Append(Tail(old), new[Len(new)])
                 /\ simulation'.history.time[Len(new)] = clock']_vars

\* a step on a full history
C15_Witness ==
    /\ last.op = "step"
    /\ simulation.steps > max_history
    /\ Len(simulation.history.time) = max_history
    /\ simulation.history.time[1] # simulation.history.time[max_history]

\* the step just taken ran initialize_data to its end on a mirror that is
\* not empty
PassCompleted == IsPass(last) /\ ~last.raised /\ db.json_data # <<>>

\* the reading at position i of the mirror is newer than the one at j: its
\* timestamp is greater (none counts as the smallest), or equal and i later
Newer(i, j) ==
    LET ti == Get(db.json_data[i], "timestamp", 0)
        tj == Get(db.json_data[j], "timestamp", 0)
    IN ti > tj \/ (ti = tj /\ i > j)

\* the positions of the mirror's readings of node n
ReadingsOf(n) ==
    {i \in 1..Len(db.json_data) : HasNodeId(db.json_data[i]) /\ db.json_data[i].node_id = n}

\* the positions of the mirror's tamper readings
TamperReadings == {i \in 1..Len(db.json_data) : IsTamperEntry(db.json_data[i])}

\* C16: after a completed pass every node of the mirror has the NodeState
\* of its reading with the greatest timestamp, the later one of equals, and
\* the alert list holds one HISTORICAL alert for each of the MaxPredictions
\* newest tamper readings of the mirror, newest first, and nothing else.
C16_PassDerivesLatestAndAlerts ==
    PassCompleted =>
        /\ \A n \in NodesOf(db.json_data) :
              \E i \in ReadingsOf(n) :
                  /\ \A j \in ReadingsOf(n) \ {i} : Newer(i, j)
                  /\ n \in DOMAIN db.meter_readings
                  /\ db.meter_readings[n].node_id = n
                  /\ db.meter_readings[n].voltage = db.json_data[i].voltage
                  /\ db.meter_readings[n].current = db.json_data[i].current
                  /\ db.meter_readings[n].light = db.json_data[i].lightIntensity
                  /\ "timestamp" \notin db.json_data[i].absent
                        => db.meter_readings[n].timestamp = db.json_data[i].timestamp
        /\ Len(db.predictions) =
              IF Cardinality(TamperReadings) < MaxPredictions
              THEN Cardinality(TamperReadings) ELSE MaxPredictions
        /\ \A k \in 1..Len(db.predictions) :
              \E i \in TamperReadings :
                  /\ Cardinality({j \in TamperReadings : Newer(j, i)}) = k - 1
                  /\ db.predictions[k].node_id = db.json_data[i].node_id
                  /\ db.predictions[k].timestamp = db.json_data[i].timestamp
                  /\ db.predictions[k].event_type = "TAMPER"
                  /\ db.predictions[k].explanation = "Historical Analysis"

\* a completed pass on a mirror with more tamper readings than the list keeps
C16_Witness ==
    /\ PassCompleted
    /\ Cardinality(TamperReadings) > MaxPredictions
    /\ Len(db.predictions) = MaxPredictions
    /\ db.predictions[1].timestamp > db.predictions[MaxPredictions].timestamp

\* C17: a forced reconciliation leaves the mirror and the fingerprint as
\* the ingestion check of a scheduler tick would: the log is read again
\* when it changed since the last reload.
C17_ForcedRunReadsLog ==
    [][last'.op = "simulate" =>
          /\ db'.json_data = reload_json_data(db, log).db.json_data
          /\ db'.last_file_size = reload_json_data(db, log).db.last_file_size]_vars

\* C18: a completed pass has called update_predictions_and_health for
\* every node of the mirror that has at least TIME_STEPS readings, when
\* there is a classifier.
C18_PassScoresEveryNode ==
    (PassCompleted /\ predictive_model = "loaded") =>
        \A n \in NodesOf(db.json_data) :
            Len(node_history(db.json_data, n)) >= TIME_STEPS
                => last.op = "score" /\ last.node = n

\* the call f of this turn has returned in the state whose loop thread is t
Returned(t, f) == f \in DOMAIN t /\ t[f]

\* C19: in a turn of the loop the simulator advances before the ingestion
\* check is made and only then, the pass is entered only after both, and a
\* turn begins only when the loop thread is out of the turn before.
C19_TurnInOrder ==
    [][/\ (Returned(sched', "checked") /\ ~Returned(sched, "checked"))
             => Returned(sched, "stepped")
       /\ simulation' # simulation
             => ~Returned(sched, "stepped") /\ ~Returned(sched, "checked")
                /\ Returned(sched', "stepped")
       /\ (sched'.pc \in PassPcs /\ sched.pc \notin PassPcs)
             => Returned(sched, "stepped") /\ Returned(sched, "checked")
       /\ (db' # db /\ phase = "running") => Returned(sched, "stepped")
       /\ clock' # clock => sched.pc = "idle"]_vars

\* the second turn of the loop is inside the pass its reload called for
C19_Witness ==
    /\ clock = MaxTicks
    /\ simulation.steps = MaxTicks
    /\ sched.pc \in PassPcs
    /\ Returned(sched, "stepped")
    /\ Returned(sched, "checked")
    /\ db.last_processed_index > 0

\* C20: no step takes a NodeState away: every node that has one keeps one,
\* also when the log is replaced by one without the node and when a
\* reload fails.
C20_NodeStatesNeverRemoved ==
    [][DOMAIN db.meter_readings \subseteq DOMAIN db'.meter_readings]_vars

\* a pass completed on a mirror without a node that has a NodeState
C20_Witness ==
    /\ PassCompleted
    /\ last.op = "tick"
    /\ \E n \in DOMAIN db.meter_readings : n \notin NodesOf(db.json_data)

\* C21: after a completed pass every alert of the list is the one of a
\* tamper reading of the mirror with confidence 80 + 1.5 current, capped at
\* 99.9, which is at most 99.9 and within [0, 100], and with severity high
\* exactly when the confidence is greater than 90.
C21_HistoricalConfidenceCapped ==
    PassCompleted =>
        \A k \in 1..Len(db.predictions) :
            /\ \E i \in TamperReadings :
                  LET raw == 8000 + 15 * db.json_data[i].current
                  IN /\ db.predictions[k].timestamp = db.json_data[i].timestamp
                     /\ db.predictions[k].node_id = db.json_data[i].node_id
                     /\ db.predictions[k].confidence = IF raw > 9990 THEN 9990 ELSE raw
            /\ db.predictions[k].confidence <= 9990
            /\ db.predictions[k].confidence >= 0
            /\ db.predictions[k].severity = "high" <=> db.predictions[k].confidence > 9000
            /\ db.predictions[k].severity \in {"high", "medium"}

\* C22: a log the producer has grown or replaced with different readable,
\* non-empty content is reloaded by the tick that follows, whatever its
\* byte length: right after a tick on a readable non-empty log the mirror
\* is the content of the log and the fingerprint its size.  (A tick that
\* does not reload leaves
\* the store and the log as they were, so a log the first tick after the
\* change has not reloaded is reloaded by no later one: "eventually" is
\* "at the next tick".)
C22_TickReloadsChangedLog ==
    (last.op = "tick" /\ load_sensor_logs(log) # <<>>) =>
        /\ db.json_data = load_sensor_logs(log)
        /\ db.last_file_size = log.size

\* C23: a mirror that is not empty never becomes empty; the mirror changes
\* only to the whole content of the log a reload has read, which is not
\* empty; a tick on a log that is deleted, empty or unusable leaves the
\* store (mirror, NodeStates, alerts) as it was; and the fingerprint is the
\* byte size of the log version the mirror holds.
C23_MirrorWholeAndFingerprinted ==
    [][/\ db.json_data # <<>> => db'.json_data # <<>>
       /\ db'.json_data # db.json_data =>
             /\ db'.json_data = load_sensor_logs(log)
             /\ db'.json_data # <<>>
       /\ (last'.op = "tick" /\ load_sensor_logs(log) = <<>>) => db' = db
       /\ db'.json_data # <<>> => db'.last_file_size = getsize(db'.json_data)]_vars

====
